---------------------------- MODULE Spec2Model ----------------------------
(***************************************************************************)
(* A model of the Geometry shape library of src/testing_system.cpp: the    *)
(* value types Vector and Point, the shapes Segment, Line, Ray, Circle and *)
(* Polygon with their ContainsPoint / CrossesSegment / Move / Clone        *)
(* methods, and the driver CheckFunctions; and the two-lines utility of    *)
(* src/two_lines.cpp.                                                      *)
(*                                                                         *)
(* Shapes live in a heap (address -> object) so that Clone and Move act on *)
(* objects with identity.  A std::vector<Point> is a heap buffer of its    *)
(* own, owned by the Polygon that points to it.                            *)
(*                                                                         *)
(* Integer widths.  The code computes in `int` and widens to `long long`   *)
(* only afterwards.  TLC's own integers are 32 bits wide, so the two C++   *)
(* widths are scaled down together: `int` is IntBits bits wide and         *)
(* `long long` is 2 * IntBits bits wide, both two's complement.  Every     *)
(* arithmetic operation of the code is followed by the wrap of the type it *)
(* is computed in.                                                         *)
(***************************************************************************)
EXTENDS Integers, Sequences, FiniteSets, TLC

VARIABLES pc, heap, shape_ptr, cloned_ptr, point_a, point_b, line, vect, out

vars == <<pc, heap, shape_ptr, cloned_ptr, point_a, point_b, line, vect, out>>

(***************************************************************************)
(* Bounds of the model.                                                    *)
(***************************************************************************)
\* width of `int` in the model; `long long` is twice as wide
IntBits == 12
\* coordinates of the points of segments, rays, circles and queries: 0..GridMax
GridMax == 2
\* coordinates of polygon vertices: x in 0..PolyMaxX, y in 0..PolyMaxY
PolyMaxX == 2
PolyMaxY == 1
\* polygons have 1..MaxVertices vertices
MaxVertices == 3
\* circle radii: 0..MaxRadius
MaxRadius == 2
\* coefficients of the lines given by (a, b, c): -CoefMax..CoefMax
CoefMax == 2
\* where every kind of shape is tried: polygons have 0..FewVertices vertices,
FewVertices == 2
\* the points A and B have coordinates 0..ProbeMax,
ProbeMax == 1
\* and the vectors of a move have coordinates -VecMax..VecMax
VecMax == 1

(***************************************************************************)
(* int and long long arithmetic                                            *)
(***************************************************************************)
RECURSIVE Pow2(_)
Pow2(n) == IF n = 0 THEN 1 ELSE 2 * Pow2(n - 1)

IntHalf == Pow2(IntBits - 1)
IntModulus == Pow2(IntBits)
LongHalf == Pow2(2 * IntBits - 1)
LongModulus == Pow2(2 * IntBits)

INT_MIN == -IntHalf
INT_MAX == IntHalf - 1

\* the value an `int` holds after an operation whose exact result is v
ToInt(v) == ((v + IntHalf) % IntModulus) - IntHalf
\* the value a `long long` holds after an operation whose exact result is v
ToLongLong(v) == ((v + LongHalf) % LongModulus) - LongHalf

InInt(v) == INT_MIN <= v /\ v <= INT_MAX

Abs(v) == IF v < 0 THEN -v ELSE v

\* C++ integer division: the quotient is truncated toward zero
TruncDiv(n, d) ==
  IF (n < 0) = (d < 0) THEN Abs(n) \div Abs(d) ELSE -(Abs(n) \div Abs(d))

(***************************************************************************)
(* Point and Vector values                                                 *)
(***************************************************************************)
Point(x, y) == [x_ |-> x, y_ |-> y]

Vector(x, y) == [x_ |-> x, y_ |-> y]

\* Vector(const Point& point)
VectorOfPoint(point) == Vector(point.x_, point.y_)

\* Vector(const Point& begin, const Point& end)
VectorBetween(begin, end) ==
  Vector(ToInt(end.x_ - begin.x_), ToInt(end.y_ - begin.y_))

\* int Vector::operator*(const Vector&): dot product
Vector_Dot(v1, v2) == ToInt(ToInt(v1.x_ * v2.x_) + ToInt(v1.y_ * v2.y_))

\* int Vector::operator^(const Vector&): cross product
Vector_Cross(v1, v2) == ToInt(ToInt(v1.x_ * v2.y_) - ToInt(v1.y_ * v2.x_))

\* operator-() that negates x_ only
Vector_Negate_XOnly(v) == Vector(ToInt(-v.x_), v.y_)


\* Vector& Vector::operator-(): negates the vector in place
Vector_Negate(v) == Vector(ToInt(-v.x_), ToInt(-v.y_))

\* Point Point::operator-(const Point&)
Point_Minus(p, q) == Point(ToInt(p.x_ - q.x_), ToInt(p.y_ - q.y_))

\* Point Point::operator+(const Point&)
Point_Plus(p, q) == Point(ToInt(p.x_ + q.x_), ToInt(p.y_ + q.y_))

\* IShape& Point::Move(const Vector&)
Point_Move(p, v) == Point(ToInt(p.x_ + v.x_), ToInt(p.y_ + v.y_))

\* bool Point::ContainsPoint(const Point&)
Point_ContainsPoint(p, point) == p.x_ = point.x_ /\ p.y_ = point.y_

(***************************************************************************)
(* Segment                                                                 *)
(***************************************************************************)
Segment(begin, end) ==
  [kind |-> "Segment", begin_ |-> Point(begin.x_, begin.y_),
   end_ |-> Point(end.x_, end.y_)]

\* Segment::ContainsPoint with the endpoints left out (`< 0` for `<= 0`)
Segment_ContainsPoint_Open(seg, point) ==
  LET v1 == VectorOfPoint(Point_Minus(point, seg.begin_))
      v2 == VectorOfPoint(Point_Minus(point, seg.end_))
  IN  Vector_Cross(v1, v2) = 0 /\ Vector_Dot(v1, v2) < 0


\* bool Segment::ContainsPoint(const Point&)
Segment_ContainsPoint(seg, point) ==
  LET v1 == VectorOfPoint(Point_Minus(point, seg.begin_))
      v2 == VectorOfPoint(Point_Minus(point, seg.end_))
  IN  Vector_Cross(v1, v2) = 0 /\ Vector_Dot(v1, v2) <= 0

\* bool Point::CrossesSegment(const Segment&)
Point_CrossesSegment(p, segment) == Segment_ContainsPoint(segment, p)

\* IShape& Segment::Move(const Vector&)
Segment_Move(seg, v) ==
  [seg EXCEPT !.begin_ = Point_Move(seg.begin_, v),
              !.end_ = Point_Move(seg.end_, v)]

(***************************************************************************)
(* Line                                                                    *)
(***************************************************************************)
Line(a, b, c) == [kind |-> "Line", a_ |-> a, b_ |-> b, c_ |-> c]

\* Line(const Point& begin, const Point& end)
LineThrough(begin, end) ==
  LET x1 == begin.x_
      y1 == begin.y_
      x2 == end.x_
      y2 == end.y_
  IN  Line(ToInt(y2 - y1), ToInt(x1 - x2), ToInt(ToInt(x2 * y1) - ToInt(x1 * y2)))

\* explicit Line(const Ray& ray)
LineOfRay(ray) ==
  LET a == ray.direction_.y_
      b == ToInt(-ray.direction_.x_)
  IN  Line(a, b, ToInt(ToInt(ToInt(-a) * ray.begin_.x_) - ToInt(b * ray.begin_.y_)))

\* long long Line::PutPointIntoEquation(const Point&): the sum is computed
\* in int and widened on return
PutPointIntoEquation(l, point) ==
  ToInt(ToInt(ToInt(l.a_ * point.x_) + ToInt(l.b_ * point.y_)) + l.c_)

\* bool Line::IsParalel(const Line&)
IsParalel(l, other) == ToInt(l.a_ * other.b_) = ToInt(l.b_ * other.a_)

\* bool Line::IsSame(const Line&)
IsSame(l, other) ==
  IsParalel(l, other) /\ ToInt(l.c_ * other.b_) = ToInt(l.b_ * other.c_)

\* bool Line::IsDistanceEqualRadius(const Line&, int radius)
IsDistanceEqualRadius(l, other, radius) ==
  IF radius = 0 THEN FALSE
  ELSE ToInt(ToInt(l.c_ - other.c_) * ToInt(l.c_ - other.c_))
         <= ToInt(ToInt(radius * radius) * ToInt(ToInt(l.a_ * l.a_) + ToInt(l.b_ * l.b_)))

\* IShape& Line::Move(const Vector&)
Line_Move(l, v) ==
  [l EXCEPT !.c_ = ToInt(l.c_ - ToInt(ToInt(l.a_ * v.x_) + ToInt(l.b_ * v.y_)))]

\* bool Line::ContainsPoint(const Point&)
Line_ContainsPoint(l, point) ==
  ToInt(ToInt(ToInt(l.a_ * point.x_) + ToInt(l.b_ * point.y_)) + l.c_) = 0

\* bool Line::CrossesSegment(const Segment&): the product is a long long one
Line_CrossesSegment(l, segment) ==
  ToLongLong(PutPointIntoEquation(l, segment.begin_)
             * PutPointIntoEquation(l, segment.end_)) <= 0

\* bool Segment::CrossesSegment(const Segment&)
Segment_CrossesSegment(seg, segment) ==
  LET ab_line == LineThrough(seg.begin_, seg.end_)
      cd_line == LineThrough(segment.begin_, segment.end_)
  IN  IF Line_CrossesSegment(ab_line, segment) /\ Line_CrossesSegment(cd_line, seg)
      THEN IF ~Segment_ContainsPoint(seg, segment.begin_)
                /\ ~Segment_ContainsPoint(seg, segment.begin_)
           THEN LET v1 == VectorBetween(seg.begin_, segment.begin_)
                    v2 == VectorBetween(seg.end_, segment.end_)
                IN  Vector_Dot(v1, v2) <= 0
           ELSE TRUE
      ELSE FALSE

(***************************************************************************)
(* Ray                                                                     *)
(***************************************************************************)
\* Ray(const Point& begin, const Vector& direction)
Ray(begin, direction) ==
  [kind |-> "Ray", begin_ |-> begin, direction_ |-> direction]

\* Ray(const Point& begin, const Point& end)
RayThrough(begin, end) ==
  [kind |-> "Ray", begin_ |-> Point(begin.x_, begin.y_),
   direction_ |-> VectorOfPoint(Point_Minus(end, begin))]

\* IShape& Ray::Move(const Vector&)
Ray_Move(ray, v) ==
  [ray EXCEPT !.begin_ = Point(ToInt(v.x_ + ray.begin_.x_),
                               ToInt(v.y_ + ray.begin_.y_))]

\* Ray::ContainsPoint without the test of the forward half: every point of
\* the supporting line
Ray_ContainsPoint_WholeLine(ray, point) ==
  Line_ContainsPoint(LineOfRay(ray), point)


\* bool Ray::ContainsPoint(const Point&)
Ray_ContainsPoint(ray, point) ==
  LET l == LineOfRay(ray)
  IN  IF Line_ContainsPoint(l, point)
      THEN LET r0 == VectorOfPoint(Point_Minus(point, ray.begin_))
           IN  Vector_Dot(r0, ray.direction_) >= 0
      ELSE FALSE

\* long long CalculateDeterminant(const Point&, const Point&): the cross
\* product is an int, widened on return
CalculateDeterminant(point1, point2) ==
  Vector_Cross(VectorOfPoint(point1), VectorOfPoint(point2))

\* the int x_intersect / y_intersect of Ray::CrossesSegment
Intersect(numerator, denominator) ==
  IF denominator # 0 THEN ToInt(ToLongLong(TruncDiv(numerator, denominator)))
  ELSE 0

\* bool Ray::CrossesSegment(const Segment&)
Ray_CrossesSegment(ray, segment) ==
  LET line1 == LineOfRay(ray)
      line2 == LineThrough(segment.begin_, segment.end_)
  IN  IF Line_CrossesSegment(line1, segment)
      THEN IF IsSame(line1, line2)
           THEN Ray_ContainsPoint(ray, segment.begin_)
                  \/ Ray_ContainsPoint(ray, segment.end_)
           ELSE LET x_numerator ==
                      CalculateDeterminant(Point(line1.c_, line1.b_),
                                           Point(line2.c_, line2.b_))
                    y_numerator ==
                      CalculateDeterminant(Point(line1.a_, line1.c_),
                                           Point(line2.a_, line2.c_))
                    denominator ==
                      ToLongLong(-CalculateDeterminant(Point(line1.a_, line1.b_),
                                                       Point(line2.a_, line2.b_)))
                    x_intersect == Intersect(x_numerator, denominator)
                    y_intersect == Intersect(y_numerator, denominator)
                    intersect_point ==
                      Vector(ToInt(x_intersect - ray.begin_.x_),
                             ToInt(y_intersect - ray.begin_.y_))
                IN  Vector_Dot(intersect_point, ray.direction_) >= 0
      ELSE FALSE

(***************************************************************************)
(* Circle                                                                  *)
(***************************************************************************)
Circle(center, radius) ==
  [kind |-> "Circle", center_ |-> center, radius_ |-> radius]

\* IShape& Circle::Move(const Vector&)
Circle_Move(circle, v) ==
  [circle EXCEPT !.center_ = Point(ToInt(v.x_ + circle.center_.x_),
                                   ToInt(v.y_ + circle.center_.y_))]

\* the two sides of the comparison of Circle::ContainsPoint(InPerimetr)
SquaredLength(len) == ToInt(ToInt(len.x_ * len.x_) + ToInt(len.y_ * len.y_))

\* bool Circle::ContainsPoint(const Point&)
Circle_ContainsPoint(circle, point) ==
  SquaredLength(Point_Minus(point, circle.center_))
    <= ToInt(circle.radius_ * circle.radius_)

\* bool Circle::ContainsPointInPerimetr(const Point&)
ContainsPointInPerimetr(circle, point) ==
  SquaredLength(Point_Minus(point, circle.center_))
    = ToInt(circle.radius_ * circle.radius_)

\* Circle::CrossesSegment whose second test looks at one order of the
\* endpoints only (begin inside, end outside)
Circle_CrossesSegment_OneWay(circle, segment) ==
  LET begin == segment.begin_
      end == segment.end_
  IN  IF ContainsPointInPerimetr(circle, begin)
           \/ ContainsPointInPerimetr(circle, end)
      THEN TRUE
      ELSE IF Circle_ContainsPoint(circle, begin)
                /\ ~Circle_ContainsPoint(circle, end)
      THEN TRUE
      ELSE IF ~Circle_ContainsPoint(circle, begin)
                /\ ~Circle_ContainsPoint(circle, end)
      THEN LET circle_line ==
                 LineThrough(circle.center_,
                             Point_Plus(circle.center_, Point_Minus(end, begin)))
               seg_line == LineThrough(begin, end)
           IN  IF IsSame(circle_line, seg_line)
               THEN LET v1 == VectorOfPoint(Point_Minus(begin, circle.center_))
                        v2 == VectorOfPoint(Point_Minus(end, circle.center_))
                    IN  Vector_Dot(v1, v2) < 0
               ELSE IsDistanceEqualRadius(circle_line, seg_line, circle.radius_)
      ELSE FALSE


\* bool Circle::CrossesSegment(const Segment&)
Circle_CrossesSegment(circle, segment) ==
  LET begin == segment.begin_
      end == segment.end_
  IN  IF ContainsPointInPerimetr(circle, begin)
           \/ ContainsPointInPerimetr(circle, end)
      THEN TRUE
      ELSE IF (Circle_ContainsPoint(circle, begin)
                 /\ ~Circle_ContainsPoint(circle, end))
                \/ (Circle_ContainsPoint(circle, end)
                      /\ ~Circle_ContainsPoint(circle, begin))
      THEN TRUE
      ELSE IF ~Circle_ContainsPoint(circle, begin)
                /\ ~Circle_ContainsPoint(circle, end)
      THEN LET circle_line ==
                 LineThrough(circle.center_,
                             Point_Plus(circle.center_, Point_Minus(end, begin)))
               seg_line == LineThrough(begin, end)
           IN  IF IsSame(circle_line, seg_line)
               THEN LET v1 == VectorOfPoint(Point_Minus(begin, circle.center_))
                        v2 == VectorOfPoint(Point_Minus(end, circle.center_))
                    IN  Vector_Dot(v1, v2) < 0
               ELSE IsDistanceEqualRadius(circle_line, seg_line, circle.radius_)
      ELSE FALSE

(***************************************************************************)
(* Polygon: size_ and the contents of points_                              *)
(***************************************************************************)
\* Vector direction1(13, 2) of Polygon::ContainsPoint
Direction1X == 13
Direction1Y == 2
\* Vector direction2(1, 0) of Polygon::ContainsPoint
Direction2X == 1
Direction2Y == 0

direction1 == Vector(Direction1X, Direction1Y)
direction2 == Vector(Direction2X, Direction2Y)

\* the edge the loops of Polygon build at index i (1-based here):
\* points_[i] -> points_[i + 1], and points_[size_ - 1] -> points_[0]
Side(size, points, i) ==
  IF i # size THEN Segment(points[i], points[i + 1])
  ELSE Segment(points[i], points[1])

\* the loop of Polygon::ContainsPointWithDirection from index i on, with
\* n_intersections crossings counted so far
RECURSIVE CastLoop(_, _, _, _, _)
CastLoop(size, points, ray, i, n_intersections) ==
  IF i > size THEN n_intersections % 2 = 1
  ELSE LET seg == Side(size, points, i)
       IN  IF Segment_ContainsPoint(seg, ray.begin_) THEN TRUE
           ELSE CastLoop(size, points, ray, i + 1,
                         n_intersections
                           + (IF Ray_CrossesSegment(ray, seg) THEN 1 ELSE 0))

\* Polygon::ContainsPointWithDirection without the early return for a
\* query point on an edge: the parity of the crossings alone
ContainsPointWithDirection_ParityOnly(size, points, point, direction) ==
  Cardinality({i \in 1..size :
                 Ray_CrossesSegment(Ray(point, direction), Side(size, points, i))})
    % 2 = 1


\* bool Polygon::ContainsPointWithDirection(const Point&, const Vector&)
ContainsPointWithDirection(size, points, point, direction) ==
  CastLoop(size, points, Ray(point, direction), 1, 0)

\* bool Polygon::ContainsPoint(const Point&)
Polygon_ContainsPoint(size, points, point) ==
  ContainsPointWithDirection(size, points, point, direction2)
    \/ ContainsPointWithDirection(size, points, point, direction1)

\* bool Polygon::CrossesSegment(const Segment&)
Polygon_CrossesSegment(size, points, segment) ==
  \E i \in 1..size : Segment_CrossesSegment(Side(size, points, i), segment)

\* IShape& Polygon::Move(const Vector&): the new contents of points_
Polygon_Move(size, points, v) ==
  [i \in DOMAIN points |->
     IF i <= size
     THEN Point(ToInt(v.x_ + points[i].x_), ToInt(v.y_ + points[i].y_))
     ELSE points[i]]

(***************************************************************************)
(* The heap: shape objects by address.  A Polygon object holds size_ and   *)
(* the address of the buffer of its std::vector<Point> points_.            *)
(***************************************************************************)
Addrs == 1..4

NullPtr == 0

Free == [kind |-> "Free"]

EmptyHeap == [a \in Addrs |-> Free]

\* operator new: a free address (the lowest one)
Alloc(h) == CHOOSE a \in Addrs : h[a] = Free /\ \A b \in Addrs : h[b] = Free => a <= b

Buffer(points) == [kind |-> "Buffer", data |-> points]

\* explicit Polygon(std::vector<Point> points), constructed at address ptr
\* with its buffer at address buf
NewPolygon(h, ptr, buf, points) ==
  [h EXCEPT ![buf] = Buffer(points),
            ![ptr] = [kind |-> "Polygon", size_ |-> Len(points), points_ |-> buf]]

\* the contents of the points_ of the polygon at ptr
PointsOf(h, ptr) == h[h[ptr].points_].data

\* Point(int x, int y) as a shape object
PointShape(x, y) == [kind |-> "Point", x_ |-> x, y_ |-> y]

\* the Point value of a Point shape object
AsPoint(obj) == Point(obj.x_, obj.y_)

\* virtual bool IShape::ContainsPoint(const Point&), on the object at ptr
Shape_ContainsPoint(h, ptr, point) ==
  LET obj == h[ptr]
  IN  CASE obj.kind = "Point" -> Point_ContainsPoint(AsPoint(obj), point)
        [] obj.kind = "Segment" -> Segment_ContainsPoint(obj, point)
        [] obj.kind = "Ray" -> Ray_ContainsPoint(obj, point)
        [] obj.kind = "Line" -> Line_ContainsPoint(obj, point)
        [] obj.kind = "Circle" -> Circle_ContainsPoint(obj, point)
        [] obj.kind = "Polygon" ->
             Polygon_ContainsPoint(obj.size_, PointsOf(h, ptr), point)

\* virtual bool IShape::CrossesSegment(const Segment&), on the object at ptr
Shape_CrossesSegment(h, ptr, segment) ==
  LET obj == h[ptr]
  IN  CASE obj.kind = "Point" -> Point_CrossesSegment(AsPoint(obj), segment)
        [] obj.kind = "Segment" -> Segment_CrossesSegment(obj, segment)
        [] obj.kind = "Ray" -> Ray_CrossesSegment(obj, segment)
        [] obj.kind = "Line" -> Line_CrossesSegment(obj, segment)
        [] obj.kind = "Circle" -> Circle_CrossesSegment(obj, segment)
        [] obj.kind = "Polygon" ->
             Polygon_CrossesSegment(obj.size_, PointsOf(h, ptr), segment)

\* virtual IShape& IShape::Move(const Vector&), on the object at ptr: the
\* heap afterwards
Shape_Move(h, ptr, v) ==
  LET obj == h[ptr]
  IN  CASE obj.kind = "Point" ->
             [h EXCEPT ![ptr] = [obj EXCEPT !.x_ = ToInt(obj.x_ + v.x_),
                                            !.y_ = ToInt(obj.y_ + v.y_)]]
        [] obj.kind = "Segment" -> [h EXCEPT ![ptr] = Segment_Move(obj, v)]
        [] obj.kind = "Ray" -> [h EXCEPT ![ptr] = Ray_Move(obj, v)]
        [] obj.kind = "Line" -> [h EXCEPT ![ptr] = Line_Move(obj, v)]
        [] obj.kind = "Circle" -> [h EXCEPT ![ptr] = Circle_Move(obj, v)]
        [] obj.kind = "Polygon" ->
             [h EXCEPT ![obj.points_] =
                Buffer(Polygon_Move(obj.size_, PointsOf(h, ptr), v))]

\* the copy constructor of std::vector<Point>: a new buffer with the same
\* contents; the heap afterwards and the address of the new buffer
CopyVector(h, buf) ==
  LET nb == Alloc(h) IN [heap |-> [h EXCEPT ![nb] = h[buf]], ptr |-> nb]

\* Clone with a member-wise copy that shares the buffer of points_
Shape_Clone_Shallow(h, ptr) ==
  LET np == Alloc(h) IN [heap |-> [h EXCEPT ![np] = h[ptr]], ptr |-> np]


\* virtual IShape* IShape::Clone() const, `new T(*this)` on the object at
\* ptr: the heap afterwards and the address of the clone
Shape_Clone(h, ptr) ==
  LET obj == h[ptr]
  IN  IF obj.kind = "Polygon"
      THEN LET copy == CopyVector(h, obj.points_)
               np == Alloc(copy.heap)
           IN  [heap |-> [copy.heap EXCEPT ![np] = [obj EXCEPT !.points_ = copy.ptr]],
                ptr |-> np]
      ELSE LET np == Alloc(h) IN [heap |-> [h EXCEPT ![np] = obj], ptr |-> np]

\* Delete(T* ptr): the object is destroyed, a Polygon with its vector
Delete(h, ptr) ==
  IF h[ptr].kind = "Polygon"
  THEN [h EXCEPT ![h[ptr].points_] = Free, ![ptr] = Free]
  ELSE [h EXCEPT ![ptr] = Free]

\* the object shape_ptr points to
TheShape == heap[shape_ptr]

(***************************************************************************)
(* CheckFunctions(shape_ptr, point_a, point_b), statement by statement     *)
(***************************************************************************)
\* shape_ptr->ContainsPoint(point_a)
CheckContainsPoint ==
  /\ pc = "contains"
  /\ out' = out @@ ("contains" :> Shape_ContainsPoint(heap, shape_ptr, point_a))
  /\ pc' = "crosses"
  /\ UNCHANGED <<heap, shape_ptr, cloned_ptr, point_a, point_b, line, vect>>

\* kSegmentAb = Segment(point_a, point_b); shape_ptr->CrossesSegment(kSegmentAb)
CheckCrossesSegment ==
  /\ pc = "crosses"
  /\ out' = out @@ ("crosses" :>
                      Shape_CrossesSegment(heap, shape_ptr, Segment(point_a, point_b)))
  /\ pc' = "clone"
  /\ UNCHANGED <<heap, shape_ptr, cloned_ptr, point_a, point_b, line, vect>>

\* kVectorAb = point_b - point_a; kClonedShapePtr = shape_ptr->Clone()
CheckClone ==
  /\ pc = "clone"
  /\ vect' = VectorOfPoint(Point_Minus(point_b, point_a))
  /\ LET c == Shape_Clone(heap, shape_ptr)
     IN  heap' = c.heap /\ cloned_ptr' = c.ptr
  /\ pc' = "move"
  /\ UNCHANGED <<shape_ptr, point_a, point_b, line, out>>

\* kClonedShapePtr->Move(kVectorAb).ToString()
CheckMove ==
  /\ pc = "move"
  /\ heap' = Shape_Move(heap, cloned_ptr, vect)
  /\ pc' = "delete"
  /\ UNCHANGED <<shape_ptr, cloned_ptr, point_a, point_b, line, vect, out>>

\* Delete(kClonedShapePtr)
CheckDelete ==
  /\ pc = "delete"
  /\ heap' = Delete(heap, cloned_ptr)
  /\ pc' = "done"
  /\ UNCHANGED <<shape_ptr, cloned_ptr, point_a, point_b, line, vect, out>>

CheckFunctions ==
  \/ CheckContainsPoint
  \/ CheckCrossesSegment
  \/ CheckClone
  \/ CheckMove
  \/ CheckDelete

(***************************************************************************)
(* Inputs                                                                  *)
(***************************************************************************)
Coords == 0..GridMax

Grid == {Point(x, y) : x \in Coords, y \in Coords}

\* main up to the call of CheckFunctions, with the heap h that holds the
\* shape it constructed at address 1, and the points A and B read from
\* the set points
InitMainOn(h, points) ==
  /\ pc = "contains"
  /\ heap = h
  /\ shape_ptr = 1
  /\ cloned_ptr = NullPtr
  /\ point_a \in points
  /\ point_b \in points
  /\ line = Line(0, 0, 0)
  /\ vect = Vector(0, 0)
  /\ out = <<>>

\* the same with A and B anywhere on the grid
InitMain(shape) == InitMainOn([EmptyHeap EXCEPT ![1] = shape], Grid)

(***************************************************************************)
(* SpecSegment: main with the command "segment"                            *)
(***************************************************************************)
InitSegment == \E p \in Grid, q \in Grid : InitMain(Segment(p, q))

(***************************************************************************)
(* SpecRay: main with the command "ray"                                    *)
(***************************************************************************)
InitRay == \E p \in Grid, q \in Grid : InitMain(RayThrough(p, q))

SpecRay == InitRay /\ [][CheckFunctions]_vars

(***************************************************************************)
(* SpecCircle: main with the command "circle"                              *)
(***************************************************************************)
InitCircle == \E c \in Grid, r \in 0..MaxRadius : InitMain(Circle(c, r))

SpecCircle == InitCircle /\ [][CheckFunctions]_vars

SpecSegment == InitSegment /\ [][CheckFunctions]_vars

(***************************************************************************)
(* SpecPolygon: a polygon and a query point; both casts of                 *)
(* ContainsPointWithDirection are called, then ContainsPoint               *)
(***************************************************************************)
PolyGrid == {Point(x, y) : x \in 0..PolyMaxX, y \in 0..PolyMaxY}

VertexLists == UNION {[1..n -> PolyGrid] : n \in 1..MaxVertices}

InitPolygon ==
  /\ pc = "cast2"
  /\ \E points \in VertexLists : heap = NewPolygon(EmptyHeap, 1, 2, points)
  /\ shape_ptr = 1
  /\ cloned_ptr = NullPtr
  /\ point_a \in Grid
  /\ point_b = Point(0, 0)
  /\ line = Line(0, 0, 0)
  /\ vect = Vector(0, 0)
  /\ out = <<>>

\* polygon.ContainsPointWithDirection(point_a, direction2)
CastDirection2 ==
  /\ pc = "cast2"
  /\ out' = out @@ ("dir2" :>
                      ContainsPointWithDirection(TheShape.size_, PointsOf(heap, shape_ptr),
                                                 point_a, direction2))
  /\ pc' = "cast1"
  /\ UNCHANGED <<heap, shape_ptr, cloned_ptr, point_a, point_b, line, vect>>

\* polygon.ContainsPointWithDirection(point_a, direction1)
CastDirection1 ==
  /\ pc = "cast1"
  /\ out' = out @@ ("dir1" :>
                      ContainsPointWithDirection(TheShape.size_, PointsOf(heap, shape_ptr),
                                                 point_a, direction1))
  /\ pc' = "contains"
  /\ UNCHANGED <<heap, shape_ptr, cloned_ptr, point_a, point_b, line, vect>>

NextPolygon == CastDirection2 \/ CastDirection1 \/ CheckContainsPoint

SpecPolygon == InitPolygon /\ [][NextPolygon]_vars


(***************************************************************************)
(* SpecLines: two lines given by their coefficients; IsParalel and IsSame  *)
(* are called on them                                                      *)
(***************************************************************************)
Coefs == (-CoefMax)..CoefMax

\* Line(a, b, c) with (a, b) # (0, 0)
WellFormedLines ==
  {Line(a, b, c) : a \in Coefs, b \in Coefs, c \in Coefs} \ {Line(0, 0, c) : c \in Coefs}

InitLines ==
  /\ pc = "paralel"
  /\ \E l \in WellFormedLines : heap = [EmptyHeap EXCEPT ![1] = l]
  /\ shape_ptr = 1
  /\ cloned_ptr = NullPtr
  /\ point_a = Point(0, 0)
  /\ point_b = Point(0, 0)
  /\ line \in WellFormedLines
  /\ vect = Vector(0, 0)
  /\ out = <<>>

\* shape.IsParalel(line)
CallIsParalel ==
  /\ pc = "paralel"
  /\ out' = out @@ ("paralel" :> IsParalel(TheShape, line))
  /\ pc' = "same"
  /\ UNCHANGED <<heap, shape_ptr, cloned_ptr, point_a, point_b, line, vect>>

\* shape.IsSame(line)
CallIsSame ==
  /\ pc = "same"
  /\ out' = out @@ ("same" :> IsSame(TheShape, line))
  /\ pc' = "done"
  /\ UNCHANGED <<heap, shape_ptr, cloned_ptr, point_a, point_b, line, vect>>

NextLines == CallIsParalel \/ CallIsSame

SpecLines == InitLines /\ [][NextLines]_vars

(***************************************************************************)
(* SpecWide: a line and a point with coefficients and coordinates over the *)
(* whole range of int; PutPointIntoEquation and CalculateDeterminant are   *)
(* called on them.  Signed overflow of an int operation is undefined: the  *)
(* build either wraps it or traps on it.                                   *)
(***************************************************************************)
WideInts ==
  {INT_MIN, -Pow2(IntBits \div 2), -1, 0, 1, Pow2(IntBits \div 2), INT_MAX}

\* some int operation of a * x + b * y + c overflows
PutPointOverflows(l, point) ==
  \/ ~InInt(l.a_ * point.x_)
  \/ ~InInt(l.b_ * point.y_)
  \/ ~InInt(l.a_ * point.x_ + l.b_ * point.y_)
  \/ ~InInt(l.a_ * point.x_ + l.b_ * point.y_ + l.c_)

\* what a call of PutPointIntoEquation can do
PutPointOutcomes(l, point) ==
  {[trap |-> FALSE, value |-> PutPointIntoEquation(l, point)]}
    \cup (IF PutPointOverflows(l, point) THEN {[trap |-> TRUE, value |-> 0]} ELSE {})

\* some int operation of x1 * y2 - y1 * x2 overflows
DeterminantOverflows(point1, point2) ==
  \/ ~InInt(point1.x_ * point2.y_)
  \/ ~InInt(point1.y_ * point2.x_)
  \/ ~InInt(point1.x_ * point2.y_ - point1.y_ * point2.x_)

\* what a call of CalculateDeterminant can do
DeterminantOutcomes(point1, point2) ==
  {[trap |-> FALSE, value |-> CalculateDeterminant(point1, point2)]}
    \cup (IF DeterminantOverflows(point1, point2)
          THEN {[trap |-> TRUE, value |-> 0]} ELSE {})

InitWide ==
  /\ pc = "put"
  /\ \E a \in WideInts, b \in WideInts, c \in WideInts :
       heap = [EmptyHeap EXCEPT ![1] = Line(a, b, c)]
  /\ shape_ptr = 1
  /\ cloned_ptr = NullPtr
  /\ \E x \in WideInts, y \in WideInts : point_a = Point(x, y)
  /\ point_b = Point(0, 0)
  /\ line = Line(0, 0, 0)
  /\ vect = Vector(0, 0)
  /\ out = <<>>

\* shape.PutPointIntoEquation(point_a)
CallPutPointIntoEquation ==
  /\ pc = "put"
  /\ \E r \in PutPointOutcomes(TheShape, point_a) : out' = out @@ ("put" :> r)
  /\ pc' = "determinant"
  /\ UNCHANGED <<heap, shape_ptr, cloned_ptr, point_a, point_b, line, vect>>

\* CalculateDeterminant({a, b}, point_a), a and b those of the shape
CallCalculateDeterminant ==
  /\ pc = "determinant"
  /\ \E r \in DeterminantOutcomes(Point(TheShape.a_, TheShape.b_), point_a) :
       out' = out @@ ("determinant" :> r)
  /\ pc' = "done"
  /\ UNCHANGED <<heap, shape_ptr, cloned_ptr, point_a, point_b, line, vect>>

NextWide == CallPutPointIntoEquation \/ CallCalculateDeterminant

SpecWide == InitWide /\ [][NextWide]_vars


(***************************************************************************)
(* Spec: main with every command, then CheckFunctions                      *)
(***************************************************************************)
Probes == {Point(x, y) : x \in 0..ProbeMax, y \in 0..ProbeMax}

FewVertexLists == UNION {[1..n -> PolyGrid] : n \in 0..FewVertices}

\* the heaps main can hand to CheckFunctions, one shape at address 1
ShapeHeaps(lines) ==
  {[EmptyHeap EXCEPT ![1] = shape] :
     shape \in {PointShape(p.x_, p.y_) : p \in Grid}
                 \cup {Segment(p, q) : p \in Grid, q \in Grid}
                 \cup {RayThrough(p, q) : p \in Grid, q \in Grid}
                 \cup lines
                 \cup {Circle(c, r) : c \in Grid, r \in 0..MaxRadius}}
    \cup {NewPolygon(EmptyHeap, 1, 2, points) : points \in FewVertexLists}

Init ==
  \E h \in ShapeHeaps({LineThrough(p, q) : p \in Grid, q \in Grid}) :
    InitMainOn(h, Probes)

Spec == Init /\ [][CheckFunctions]_vars

(***************************************************************************)
(* SpecRoundTrip: a shape of any kind is moved by a vector, the vector is  *)
(* negated and the shape is moved again                                    *)
(***************************************************************************)
\* everything the shape at ptr owns: its members and the contents of points_
ShapeValue(h, ptr) ==
  [members |-> h[ptr],
   points |-> IF h[ptr].kind = "Polygon" THEN PointsOf(h, ptr) ELSE <<>>]

Vectors == {Vector(x, y) : x \in (-VecMax)..VecMax, y \in (-VecMax)..VecMax}

InitRoundTrip ==
  /\ pc = "there"
  /\ heap \in ShapeHeaps(WellFormedLines)
  /\ shape_ptr = 1
  /\ cloned_ptr = NullPtr
  /\ point_a = Point(0, 0)
  /\ point_b = Point(0, 0)
  /\ line = Line(0, 0, 0)
  /\ vect \in Vectors
  /\ out = [before |-> ShapeValue(heap, 1)]

\* shape.Move(vect)
MoveThere ==
  /\ pc = "there"
  /\ heap' = Shape_Move(heap, shape_ptr, vect)
  /\ pc' = "negate"
  /\ UNCHANGED <<shape_ptr, cloned_ptr, point_a, point_b, line, vect, out>>

\* -vect
NegateVect ==
  /\ pc = "negate"
  /\ vect' = Vector_Negate(vect)
  /\ pc' = "back"
  /\ UNCHANGED <<heap, shape_ptr, cloned_ptr, point_a, point_b, line, out>>

\* shape.Move(-vect)
MoveBack ==
  /\ pc = "back"
  /\ heap' = Shape_Move(heap, shape_ptr, vect)
  /\ pc' = "done"
  /\ UNCHANGED <<shape_ptr, cloned_ptr, point_a, point_b, line, vect, out>>

NextRoundTrip == MoveThere \/ NegateVect \/ MoveBack

SpecRoundTrip == InitRoundTrip /\ [][NextRoundTrip]_vars


(***************************************************************************)
(* SpecCovariance: a shape of any kind is asked about a point, moved by a  *)
(* vector, and asked about the moved point                                 *)
(***************************************************************************)
\* polygons as in FewVertexLists, and the triangles
MovedVertexLists == FewVertexLists \cup [1..3 -> PolyGrid]

MovedHeaps ==
  ShapeHeaps(WellFormedLines)
    \cup {NewPolygon(EmptyHeap, 1, 2, points) : points \in MovedVertexLists}

InitCovariance ==
  /\ pc = "ask"
  /\ heap \in MovedHeaps
  /\ shape_ptr = 1
  /\ cloned_ptr = NullPtr
  /\ point_a \in Probes
  /\ point_b = Point(0, 0)
  /\ line = Line(0, 0, 0)
  /\ vect \in Vectors
  /\ out = [before |-> ShapeValue(heap, 1)]

\* shape.ContainsPoint(A)
AskBefore ==
  /\ pc = "ask"
  /\ out' = out @@ ("contains" :> Shape_ContainsPoint(heap, shape_ptr, point_a))
  /\ pc' = "move"
  /\ UNCHANGED <<heap, shape_ptr, cloned_ptr, point_a, point_b, line, vect>>

\* shape.Move(vect)
MoveShape ==
  /\ pc = "move"
  /\ heap' = Shape_Move(heap, shape_ptr, vect)
  /\ pc' = "ask again"
  /\ UNCHANGED <<shape_ptr, cloned_ptr, point_a, point_b, line, vect, out>>

\* shape.ContainsPoint(A + vect)
AskAfter ==
  /\ pc = "ask again"
  /\ out' = out @@ ("after" :>
       Shape_ContainsPoint(heap, shape_ptr,
                           Point(ToInt(point_a.x_ + vect.x_), ToInt(point_a.y_ + vect.y_))))
  /\ pc' = "done"
  /\ UNCHANGED <<heap, shape_ptr, cloned_ptr, point_a, point_b, line, vect>>

NextCovariance == AskBefore \/ MoveShape \/ AskAfter

SpecCovariance == InitCovariance /\ [][NextCovariance]_vars


(***************************************************************************)
(* The two-lines utility of src/two_lines.cpp.  Its Line and Vector are    *)
(* the classes above; GetABC() is the vector {a_, b_, c_}, indexed from 0. *)
(* A double that the code gets by dividing is kept as the operands of the  *)
(* division: numerator / sqrt(radicand) for the distance, numerator /      *)
(* denominator for a coordinate.  Integers convert to double exactly.      *)
(***************************************************************************)
GetABC(l) == <<l.a_, l.b_, l.c_>>

\* GetABC()[letter]
Letter(l, letter) == GetABC(l)[letter + 1]

Calculate(line1, line2, letter1, letter2) ==
  Vector_Cross(Vector(Letter(line1, letter1), Letter(line1, letter2)),
               Vector(Letter(line2, letter1), Letter(line2, letter2)))

\* {x_numerator / denominator, y_numerator / denominator}
IntersectionPoint(line1, line2) ==
  [x_numerator |-> Calculate(line1, line2, 2, 1),
   y_numerator |-> Calculate(line1, line2, 0, 2),
   denominator |-> -Calculate(line1, line2, 0, 1)]

\* abs(b2 - b1) / sqrt(a2 * a2 + b2 * b2)
ParalellDistance(line1, line2) ==
  [numerator |-> Abs(ToInt(Letter(line2, 1) - Letter(line1, 1))),
   radicand  |-> ToInt(ToInt(Letter(line2, 0) * Letter(line2, 0))
                       + ToInt(Letter(line2, 1) * Letter(line2, 1)))]

IsParallel(line1, line2) ==
  Vector_Cross(Vector(Letter(line1, 0), Letter(line1, 1)),
               Vector(Letter(line2, 0), Letter(line2, 1))) = 0

\* b_double and a_double: the direction (b, -a), with a zero kept unsigned
DirectionOf(l) == [b_double |-> l.b_, a_double |-> IF l.a_ = 0 THEN l.a_ ELSE -l.a_]

\* line1 is the object at address 1, line2 is `line`
InitTwoLines ==
  /\ pc = "line1"
  /\ \E l \in WellFormedLines : heap = [EmptyHeap EXCEPT ![1] = l]
  /\ shape_ptr = 1
  /\ cloned_ptr = NullPtr
  /\ point_a = Point(0, 0)
  /\ point_b = Point(0, 0)
  /\ line \in WellFormedLines
  /\ vect = Vector(0, 0)
  /\ out = <<>>

PrintDirection1 ==
  /\ pc = "line1"
  /\ out' = out @@ ("direction1" :> DirectionOf(TheShape))
  /\ pc' = "line2"
  /\ UNCHANGED <<heap, shape_ptr, cloned_ptr, point_a, point_b, line, vect>>

PrintDirection2 ==
  /\ pc = "line2"
  /\ out' = out @@ ("direction2" :> DirectionOf(line))
  /\ pc' = "report"
  /\ UNCHANGED <<heap, shape_ptr, cloned_ptr, point_a, point_b, line, vect>>

PrintDistance ==
  /\ pc = "report"
  /\ IsParallel(TheShape, line)
  /\ out' = out @@ ("distance" :> ParalellDistance(TheShape, line))
  /\ pc' = "done"
  /\ UNCHANGED <<heap, shape_ptr, cloned_ptr, point_a, point_b, line, vect>>

PrintIntersection ==
  /\ pc = "report"
  /\ ~IsParallel(TheShape, line)
  /\ out' = out @@ ("point" :> IntersectionPoint(TheShape, line))
  /\ pc' = "done"
  /\ UNCHANGED <<heap, shape_ptr, cloned_ptr, point_a, point_b, line, vect>>

NextTwoLines == PrintDirection1 \/ PrintDirection2 \/ PrintDistance \/ PrintIntersection

SpecTwoLines == InitTwoLines /\ [][NextTwoLines]_vars



(***************************************************************************)
(* Plane geometry over the integers, stated without the code's operators.  *)
(***************************************************************************)
Min(a, b) == IF a <= b THEN a ELSE b
Max(a, b) == IF a <= b THEN b ELSE a

\* twice the signed area of the triangle p, q, r
Orient(p, q, r) ==
  (q.x_ - p.x_) * (r.y_ - p.y_) - (q.y_ - p.y_) * (r.x_ - p.x_)

\* r is a point of the closed segment from p to q
OnClosedSegment(p, q, r) ==
  /\ Orient(p, q, r) = 0
  /\ Min(p.x_, q.x_) <= r.x_ /\ r.x_ <= Max(p.x_, q.x_)
  /\ Min(p.y_, q.y_) <= r.y_ /\ r.y_ <= Max(p.y_, q.y_)

Returned(what) == what \in DOMAIN out

(***************************************************************************)
(* Segment                                                                 *)
(***************************************************************************)
\* C1: Segment(p,q).ContainsPoint(r) is true exactly when r lies on the
\* closed segment from p to q (endpoints included, p = q a single point).
C1_SegmentContainsPoint ==
  (TheShape.kind = "Segment" /\ Returned("contains")) =>
    (out.contains = OnClosedSegment(TheShape.begin_, TheShape.end_, point_a))

\* a query point strictly between two distinct endpoints was found contained
C1_Witness ==
  /\ TheShape.kind = "Segment" /\ Returned("contains")
  /\ TheShape.begin_ # TheShape.end_
  /\ point_a # TheShape.begin_ /\ point_a # TheShape.end_
  /\ out.contains

\* C3: if the begin or the end of `other` lies on `this`, then
\* this.CrossesSegment(other) returns true.
C3_TouchingCrosses ==
  (/\ TheShape.kind = "Segment" /\ Returned("crosses")
   /\ \/ OnClosedSegment(TheShape.begin_, TheShape.end_, point_a)
      \/ OnClosedSegment(TheShape.begin_, TheShape.end_, point_b))
    => out.crosses


(***************************************************************************)
(* Polygon                                                                 *)
(***************************************************************************)
ThePoints == PointsOf(heap, shape_ptr)

\* the index after i, cyclically
NextIndex(points, i) == IF i = Len(points) THEN 1 ELSE i + 1

\* every vertex lies on the side s of every edge, and every corner turns
\* strictly to the side s: a convex polygon of at least three vertices,
\* counter-clockwise for s = 1 and clockwise for s = -1
ConvexTo(points, s) ==
  /\ Len(points) >= 3
  /\ \A i \in DOMAIN points :
       /\ \A k \in DOMAIN points :
            s * Orient(points[i], points[NextIndex(points, i)], points[k]) >= 0
       /\ s * Orient(points[i], points[NextIndex(points, i)],
                     points[NextIndex(points, NextIndex(points, i))]) > 0

\* p is in the interior or on the boundary of the convex polygon
InsideConvex(points, p) ==
  \E s \in {1, -1} :
    /\ ConvexTo(points, s)
    /\ \A i \in DOMAIN points :
         s * Orient(points[i], points[NextIndex(points, i)], p) >= 0

IsConvex(points) == \E s \in {1, -1} : ConvexTo(points, s)

\* p lies on the edge that starts at vertex i
OnEdge(points, i, p) == OnClosedSegment(points[i], points[NextIndex(points, i)], p)

\* C2: for a convex polygon, Polygon.ContainsPoint(p) is true exactly when
\* p is in the interior or on the boundary.
C2_ConvexContainsPoint ==
  (TheShape.kind = "Polygon" /\ Returned("contains") /\ IsConvex(ThePoints)) =>
    (out.contains = InsideConvex(ThePoints, point_a))

\* C8: for a query point on one of the cyclic edges of the polygon, both
\* ContainsPointWithDirection(p, (1,0)) and ContainsPointWithDirection(p, (13,2))
\* return true.
C8_BoundaryBothDirections ==
  (/\ TheShape.kind = "Polygon" /\ Returned("dir1") /\ Returned("dir2")
   /\ \E i \in DOMAIN ThePoints : OnEdge(ThePoints, i, point_a))
    => (out.dir1 /\ out.dir2)

\* the query point lies on the last edge only, strictly inside it, the
\* horizontal ray crossed an earlier edge, and both casts returned true
C8_Witness ==
  /\ TheShape.kind = "Polygon" /\ Returned("dir1") /\ Returned("dir2")
  /\ Len(ThePoints) = 3
  /\ OnEdge(ThePoints, 3, point_a)
  /\ ~OnEdge(ThePoints, 1, point_a) /\ ~OnEdge(ThePoints, 2, point_a)
  /\ \E i \in {1, 2} :
       Ray_CrossesSegment(Ray(point_a, direction2), Side(3, ThePoints, i))
  /\ out.dir1 /\ out.dir2


(***************************************************************************)
(* Circle                                                                  *)
(***************************************************************************)
\* C7: C.CrossesSegment(Segment(a,b)) = C.CrossesSegment(Segment(b,a)): the
\* value CheckFunctions got for Segment(point_a, point_b) is the value of
\* the call with the endpoints swapped.
C7_CircleCrossesSymmetric ==
  (TheShape.kind = "Circle" /\ Returned("crosses")) =>
    (out.crosses = Circle_CrossesSegment(TheShape, Segment(point_b, point_a)))

\* a segment that leaves the circle: A inside, B strictly outside, crossing
\* reported
C7_Witness ==
  /\ TheShape.kind = "Circle" /\ Returned("crosses")
  /\ TheShape.radius_ > 0
  /\ Circle_ContainsPoint(TheShape, point_a)
  /\ ~Circle_ContainsPoint(TheShape, point_b)
  /\ out.crosses

(***************************************************************************)
(* Ray                                                                     *)
(***************************************************************************)
Cross(ux, uy, vx, vy) == ux * vy - uy * vx

\* p is a point of the ray from b in direction d
OnRay(b, d, p) ==
  /\ Cross(d.x_, d.y_, p.x_ - b.x_, p.y_ - b.y_) = 0
  /\ (p.x_ - b.x_) * d.x_ + (p.y_ - b.y_) * d.y_ >= 0

\* the line of the ray from b in direction d is the line through p and q
SameSupportingLine(b, d, p, q) ==
  /\ Cross(d.x_, d.y_, p.x_ - b.x_, p.y_ - b.y_) = 0
  /\ Cross(d.x_, d.y_, q.x_ - b.x_, q.y_ - b.y_) = 0

\* the lines are distinct, and the ray b + t*d (t >= 0) and the closed
\* segment p + s*(q - p) (0 <= s <= 1) share a point: with
\* D = d x (q - p), t = ((p - b) x (q - p)) / D and s = ((p - b) x d) / D
RayMeetsSegment(b, d, p, q) ==
  LET ex == q.x_ - p.x_
      ey == q.y_ - p.y_
      D == Cross(d.x_, d.y_, ex, ey)
      tn == Cross(p.x_ - b.x_, p.y_ - b.y_, ex, ey)
      sn == Cross(p.x_ - b.x_, p.y_ - b.y_, d.x_, d.y_)
  IN  /\ D # 0
      /\ tn * D >= 0
      /\ sn * D >= 0
      /\ Abs(sn) <= Abs(D)

\* C9: for a ray with non-zero direction and a segment, R.CrossesSegment(s)
\* is true exactly when the ray and the closed segment share a point if
\* their lines differ, and exactly when begin or end of s is on the ray if
\* their lines are the same.
C9_RayCrossesSegmentExact ==
  (/\ TheShape.kind = "Ray" /\ Returned("crosses")
   /\ TheShape.direction_ # Vector(0, 0)
   /\ point_a # point_b)
    => (out.crosses =
          IF SameSupportingLine(TheShape.begin_, TheShape.direction_, point_a, point_b)
          THEN OnRay(TheShape.begin_, TheShape.direction_, point_a)
                 \/ OnRay(TheShape.begin_, TheShape.direction_, point_b)
          ELSE RayMeetsSegment(TheShape.begin_, TheShape.direction_, point_a, point_b))


(***************************************************************************)
(* Line                                                                    *)
(***************************************************************************)
\* (a1, b1, c1) and (a2, b2, c2) are proportional: for well-formed lines,
\* one is a non-zero multiple of the other and the point sets are equal
Proportional(l1, l2) ==
  /\ l1.a_ * l2.b_ = l1.b_ * l2.a_
  /\ l1.a_ * l2.c_ = l1.c_ * l2.a_
  /\ l1.b_ * l2.c_ = l1.c_ * l2.b_

\* C4: for well-formed lines, L1.IsSame(L2) is true exactly when the
\* coefficient triples are proportional, vertical and horizontal lines
\* included; hence IsSame implies IsParalel.
C4_IsSameIffProportional ==
  (TheShape.kind = "Line" /\ Returned("same")) =>
    /\ out.same = Proportional(TheShape, line)
    /\ out.same => out.paralel

\* C10: PutPointIntoEquation returns the exact value a*x + b*y + c, and the
\* cross product of CalculateDeterminant is exact, for all int inputs.
C10_WideArithmeticExact ==
  /\ Returned("put") =>
       /\ ~out.put.trap
       /\ out.put.value
            = TheShape.a_ * point_a.x_ + TheShape.b_ * point_a.y_ + TheShape.c_
  /\ Returned("determinant") =>
       /\ ~out.determinant.trap
       /\ out.determinant.value
            = TheShape.a_ * point_a.y_ - TheShape.b_ * point_a.x_


(***************************************************************************)
(* Clone and Move                                                          *)
(***************************************************************************)
\* a step of CheckFunctions that clones the shape or moves the clone leaves
\* the shape and its answers as they were
CloneStepKeepsShape ==
  pc \in {"clone", "move"} =>
    /\ ShapeValue(heap', shape_ptr) = ShapeValue(heap, shape_ptr)
    /\ Shape_ContainsPoint(heap', shape_ptr, point_a) = out.contains
    /\ Shape_CrossesSegment(heap', shape_ptr, Segment(point_a, point_b)) = out.crosses

\* C5: while CheckFunctions clones the shape and moves the clone, every
\* coordinate and coefficient of the shape stays what it was, and
\* ContainsPoint(A) and CrossesSegment(AB) of the shape stay what they
\* were before the clone was made.
C5_CloneIndependent == [][CloneStepKeepsShape]_vars

\* the clone of a polygon has been moved away from the polygon
C5_Witness ==
  /\ pc = "delete"
  /\ TheShape.kind = "Polygon" /\ TheShape.size_ = 2
  /\ cloned_ptr # shape_ptr
  /\ heap[cloned_ptr].kind = "Polygon"
  /\ \A i \in 1..2 : PointsOf(heap, cloned_ptr)[i] # PointsOf(heap, shape_ptr)[i]

\* C6: after S.Move(v) and S.Move(-v) the shape has exactly the coordinates
\* and coefficients it had before, polygon vertices in the same order.
C6_MoveRoundTrip ==
  pc = "done" => ShapeValue(heap, shape_ptr) = out.before

\* a line went through a move that changed its c, and came back
C6_Witness ==
  /\ pc = "done"
  /\ TheShape.kind = "Line"
  /\ TheShape.a_ * vect.x_ + TheShape.b_ * vect.y_ # 0
  /\ ShapeValue(heap, shape_ptr) = out.before


\* C11: in the two-lines utility, once the result is printed for two lines
\* (a, b, c1) and (a, b, c2), it is the distance |c1 - c2| / sqrt(a^2 + b^2)
\* and no intersection point is printed.  The printed n / sqrt(r) equals
\* that distance when n^2 * (a^2 + b^2) = (c1 - c2)^2 * r.
C11_ParallelDistance ==
  (pc = "done" /\ Returned("direction2")
     /\ TheShape.a_ = line.a_ /\ TheShape.b_ = line.b_)
    => /\ ~Returned("point")
       /\ Returned("distance")
       /\ out.distance.radicand > 0
       /\ out.distance.numerator * out.distance.numerator
            * (line.a_ * line.a_ + line.b_ * line.b_)
          = (TheShape.c_ - line.c_) * (TheShape.c_ - line.c_) * out.distance.radicand

\* squared distance of the points p and q
Dist2(p, q) == (p.x_ - q.x_) * (p.x_ - q.x_) + (p.y_ - q.y_) * (p.y_ - q.y_)

\* the line through p and q (p # q) is at distance r from the point c
LineAtDistance(p, q, c, r) == Orient(p, q, c) * Orient(p, q, c) = r * r * Dist2(p, q)

\* the case of C12: both ends of the segment A B strictly outside the
\* circle, and its supporting line not through the center
OutsideOffCenter ==
  /\ TheShape.kind = "Circle"
  /\ point_a # point_b
  /\ Dist2(point_a, TheShape.center_) > TheShape.radius_ * TheShape.radius_
  /\ Dist2(point_b, TheShape.center_) > TheShape.radius_ * TheShape.radius_
  /\ Orient(point_a, point_b, TheShape.center_) # 0

\* C12: for a segment with both ends strictly outside the circle whose line
\* does not pass through the center, Circle.CrossesSegment is true exactly
\* when the line is at distance radius from the center (tangent).
C12_TangentOnly ==
  (OutsideOffCenter /\ Returned("crosses")) =>
    (out.crosses = LineAtDistance(point_a, point_b, TheShape.center_, TheShape.radius_))

\* the case of C13: a ray with a non-zero direction, asked about A
RayAsked ==
  /\ TheShape.kind = "Ray"
  /\ TheShape.direction_ # Vector(0, 0)
  /\ Returned("contains")

\* C13: for a ray with begin B and non-zero direction d, ContainsPoint(p) is
\* true exactly when (p - B) x d = 0 and (p - B) . d >= 0, and the line
\* Line(Ray) contains exactly the points with (p - B) x d = 0.
C13_RayContainsForwardHalf ==
  RayAsked =>
    /\ out.contains = OnRay(TheShape.begin_, TheShape.direction_, point_a)
    /\ Line_ContainsPoint(LineOfRay(TheShape), point_a)
         = (Cross(TheShape.direction_.x_, TheShape.direction_.y_,
                  point_a.x_ - TheShape.begin_.x_, point_a.y_ - TheShape.begin_.y_) = 0)

\* a point of the supporting line strictly behind B: not contained
C13_Witness ==
  /\ RayAsked
  /\ Line_ContainsPoint(LineOfRay(TheShape), point_a)
  /\ (point_a.x_ - TheShape.begin_.x_) * TheShape.direction_.x_
       + (point_a.y_ - TheShape.begin_.y_) * TheShape.direction_.y_ < 0
  /\ out.contains = FALSE

\* the closed segments p1 q1 and p2 q2 share a point: they cross properly,
\* or an end of one lies on the other
SegmentsMeet(p1, q1, p2, q2) ==
  \/ /\ Orient(p1, q1, p2) * Orient(p1, q1, q2) < 0
     /\ Orient(p2, q2, p1) * Orient(p2, q2, q1) < 0
  \/ OnClosedSegment(p1, q1, p2)
  \/ OnClosedSegment(p1, q1, q2)
  \/ OnClosedSegment(p2, q2, p1)
  \/ OnClosedSegment(p2, q2, q1)

\* C14: A.CrossesSegment(B) is true exactly when the closed segments A and B
\* share a point; so it equals B.CrossesSegment(A) and does not change when
\* the ends of A or of B are swapped.
C14_SegmentsCrossExact ==
  (TheShape.kind = "Segment" /\ Returned("crosses")) =>
    LET other == Segment(point_a, point_b)
    IN  /\ out.crosses
          = SegmentsMeet(TheShape.begin_, TheShape.end_, point_a, point_b)
        /\ out.crosses = Segment_CrossesSegment(other, TheShape)
        /\ out.crosses = Segment_CrossesSegment(TheShape, Segment(point_b, point_a))
        /\ out.crosses
          = Segment_CrossesSegment(Segment(TheShape.end_, TheShape.begin_), other)

\* the value `now` of a shape is the value `was` at another position: what
\* a move has to keep is kept
SameForm(was, now) ==
  /\ now.members.kind = was.members.kind
  /\ was.members.kind = "Ray" => now.members.direction_ = was.members.direction_
  /\ was.members.kind = "Circle" => now.members.radius_ = was.members.radius_
  /\ was.members.kind = "Line" =>
       now.members.a_ = was.members.a_ /\ now.members.b_ = was.members.b_
  /\ was.members.kind = "Polygon" =>
       /\ now.members.size_ = was.members.size_
       /\ Len(now.points) = Len(was.points)
       /\ \A i \in 1..Len(was.points) :
            /\ now.points[i].x_ = was.points[i].x_ + vect.x_
            /\ now.points[i].y_ = was.points[i].y_ + vect.y_

\* C15: after S.Move(v), S.ContainsPoint(p + v) is what S.ContainsPoint(p)
\* was before the move, and the move has changed the position only: the
\* direction of a Ray, the radius of a Circle, a and b of a Line and the
\* number and order of the vertices of a Polygon are as before.
C15_TranslationCovariance ==
  Returned("after") =>
    /\ out.after = out.contains
    /\ SameForm(out.before, ShapeValue(heap, shape_ptr))

=============================================================================
